---- MODULE Spec2Model ----
(***************************************************************************)
(* Model of StockMatcher (src/stock_matcher.py): catalog load, the four    *)
(* indices, and the match_stock cascade exact -> prefix -> word ->         *)
(* trigram -> phonetic -> fuzzy.                                           *)
(*                                                                         *)
(* A Python str is a sequence of one-character atoms.  Catalog positions   *)
(* are 1-based here (Python's are 0-based); their order is the same.       *)
(* A score is the exact rational num/den of the float the code computes.   *)
(***************************************************************************)
EXTENDS Integers, Sequences, FiniteSets, TLC

VARIABLES df, stock_data, prefix_index, word_index, trigram_index,
          phonetic_index, pc, query, max_results, query_clean, cands,
          result, calls, text, cleaned

vars == <<df, stock_data, prefix_index, word_index, trigram_index,
          phonetic_index, pc, query, max_results, query_clean, cands,
          result, calls, text, cleaned>>

catalogVars == <<df, stock_data, prefix_index, word_index, trigram_index,
                 phonetic_index>>

callVars == <<pc, query, max_results, query_clean, cands, result, calls>>

cleanVars == <<text, cleaned>>

----------------------------------------------------------------------------
(* Bounds *)

MaxCatalog == 2

MaxLen == 3

Callers == {"c1", "c2"}

----------------------------------------------------------------------------
(* Characters.  E_ACUTE is the precomposed U+00C9, COMB_ACUTE is U+0301,   *)
(* TAB is U+0009.                                                          *)

LowerLetters == {"a", "b", "c", "k", "n", "s", "e"}

UpperLetters == {"A", "B", "C", "K", "N", "S", "E"}

Whitespace == {" ", "TAB"}

WordChars == LowerLetters \cup UpperLetters

\* str.lower() of one character
lower_char(c) ==
  CASE c = "A" -> "a" [] c = "B" -> "b" [] c = "C" -> "c" [] c = "K" -> "k"
    [] c = "N" -> "n" [] c = "S" -> "s" [] c = "E" -> "e"
    [] OTHER -> c

\* str.upper() of one character
upper_char(c) ==
  CASE c = "a" -> "A" [] c = "b" -> "B" [] c = "c" -> "C" [] c = "k" -> "K"
    [] c = "n" -> "N" [] c = "s" -> "S" [] c = "e" -> "E"
    [] OTHER -> c

\* unicodedata.normalize('NFKD', c) of one character
nfkd_char(c) == IF c = "E_ACUTE" THEN <<"E", "COMB_ACUTE">> ELSE <<c>>

RECURSIVE Flatten(_)
Flatten(ss) == IF ss = <<>> THEN <<>> ELSE Head(ss) \o Flatten(Tail(ss))

lower(s) == [i \in 1..Len(s) |-> lower_char(s[i])]

upper(s) == [i \in 1..Len(s) |-> upper_char(s[i])]

nfkd(s) == Flatten([i \in 1..Len(s) |-> nfkd_char(s[i])])

\* re.sub(r'[^\w\s]', ' ', s)
sub_nonword(s) ==
  [i \in 1..Len(s) |-> IF s[i] \in WordChars \cup Whitespace THEN s[i] ELSE " "]

\* str.split(): the maximal runs of non-whitespace characters
RECURSIVE split_from(_, _, _)
split_from(s, i, cur) ==
  IF i > Len(s) THEN (IF cur = <<>> THEN <<>> ELSE <<cur>>)
  ELSE IF s[i] \in Whitespace
       THEN (IF cur = <<>> THEN <<>> ELSE <<cur>>) \o split_from(s, i + 1, <<>>)
       ELSE split_from(s, i + 1, Append(cur, s[i]))

split(s) == split_from(s, 1, <<>>)

\* ' '.join(words)
RECURSIVE join(_)
join(ws) ==
  IF ws = <<>> THEN <<>>
  ELSE IF Len(ws) = 1 THEN ws[1]
  ELSE ws[1] \o <<" ">> \o join(Tail(ws))

\* str.strip()
RECURSIVE lstrip(_)
lstrip(s) == IF s # <<>> /\ Head(s) \in Whitespace THEN lstrip(Tail(s)) ELSE s

RECURSIVE rstrip(_)
rstrip(s) ==
  IF s # <<>> /\ s[Len(s)] \in Whitespace THEN rstrip(SubSeq(s, 1, Len(s) - 1))
  ELSE s

strip(s) == rstrip(lstrip(s))

\* a mis-ordered normalizer: collapses whitespace before replacing punctuation
clean_text_collapse_first(s) == sub_nonword(lower(join(split(nfkd(s)))))

\* StockMatcher._clean_text
clean_text(s) == join(split(sub_nonword(lower(nfkd(s)))))

\* s[:n] for n >= 0
Take(s, n) == SubSeq(s, 1, IF n < Len(s) THEN n ELSE Len(s))

\* a return that forgets the [:max_results] cut
slice_to_nothing_cut(s, k) == s

\* Python's s[:k] for any integer k
slice_to(s, k) ==
  IF k >= 0 THEN Take(s, k)
  ELSE Take(s, IF Len(s) + k > 0 THEN Len(s) + k ELSE 0)

\* Python's "sub in s"
contains(s, sub) ==
  \E i \in 0..(Len(s) - Len(sub)) : SubSeq(s, i + 1, i + Len(sub)) = sub

Min(a, b) == IF a < b THEN a ELSE b

Max(a, b) == IF a > b THEN a ELSE b

Range(s) == {s[i] : i \in 1..Len(s)}

\* str.replace(' ', ''): drop every space
RECURSIVE remove_spaces(_)
remove_spaces(s) ==
  IF s = <<>> THEN <<>>
  ELSE IF Head(s) = " " THEN remove_spaces(Tail(s))
  ELSE <<Head(s)>> \o remove_spaces(Tail(s))

\* str.replace('.NS', ''): drop every occurrence, left to right
RECURSIVE remove_ns(_)
remove_ns(s) ==
  IF s = <<>> THEN <<>>
  ELSE IF Len(s) >= 3 /\ SubSeq(s, 1, 3) = <<".", "N", "S">>
       THEN remove_ns(SubSeq(s, 4, Len(s)))
  ELSE <<Head(s)>> \o remove_ns(Tail(s))

\* StockMatcher._get_trigrams
get_trigrams(s) ==
  LET t == <<" ", " ">> \o s \o <<" ">>
  IN  [i \in 1..(Len(t) - 2) |-> SubSeq(t, i, i + 2)]

----------------------------------------------------------------------------
(* Library functions the matcher calls, modelled by what they compute.     *)

\* jellyfish.metaphone on the letters of LowerLetters (the input has been
\* through clean_text and had its spaces removed)
RECURSIVE metaphone_from(_, _)
metaphone_from(s, i) ==
  IF i > Len(s) THEN <<>>
  ELSE LET c == s[i]
           next == IF i < Len(s) THEN s[i + 1] ELSE "*"
       IN  IF c = next /\ c # "c" THEN metaphone_from(s, i + 1)
           ELSE IF c \in {"a", "e"}
                THEN (IF i = 1 THEN <<upper_char(c)>> ELSE <<>>)
                     \o metaphone_from(s, i + 1)
           ELSE IF c = "b" THEN <<"B">> \o metaphone_from(s, i + 1)
           ELSE IF c = "c"
                THEN (IF next = "e" THEN <<"S">> \o metaphone_from(s, i + 2)
                      ELSE <<"K">> \o metaphone_from(s, i + 1))
           ELSE IF c = "k"
                THEN (IF i = 1 \/ s[i - 1] # "c" THEN <<"K">> ELSE <<>>)
                     \o metaphone_from(s, i + 1)
           ELSE IF c = "n" THEN <<"N">> \o metaphone_from(s, i + 1)
           ELSE IF c = "s" THEN <<"S">> \o metaphone_from(s, i + 1)
           ELSE metaphone_from(s, i + 1)

metaphone(s) ==
  LET t == IF Len(s) >= 2 /\ SubSeq(s, 1, 2) \in {<<"k", "n">>, <<"a", "e">>}
           THEN Tail(s) ELSE s
  IN  metaphone_from(t, 1)

\* length of the common run of a from i and b from j, inside [i, ahi) x [j, bhi)
RECURSIVE common_run(_, _, _, _, _, _)
common_run(a, i, ahi, b, j, bhi) ==
  IF i < ahi /\ j < bhi /\ a[i] = b[j]
  THEN 1 + common_run(a, i + 1, ahi, b, j + 1, bhi)
  ELSE 0

\* difflib.SequenceMatcher.find_longest_match (no junk: autojunk needs
\* len(b) >= 200): the longest block, earliest in a, then earliest in b
find_longest_match(a, alo, ahi, b, blo, bhi) ==
  LET Blocks == {<<i, j, common_run(a, i, ahi, b, j, bhi)>> :
                   i \in alo..(ahi - 1), j \in blo..(bhi - 1)}
      Better(x, y) == \/ x[3] > y[3]
                      \/ x[3] = y[3] /\ x[1] < y[1]
                      \/ x[3] = y[3] /\ x[1] = y[1] /\ x[2] <= y[2]
  IN  IF Blocks = {} THEN <<alo, blo, 0>>
      ELSE CHOOSE x \in Blocks : \A y \in Blocks : Better(x, y)

\* sum of the sizes of difflib's get_matching_blocks
RECURSIVE matching_size(_, _, _, _, _, _)
matching_size(a, alo, ahi, b, blo, bhi) ==
  LET m == find_longest_match(a, alo, ahi, b, blo, bhi)
  IN  IF m[3] = 0 THEN 0
      ELSE m[3] + matching_size(a, alo, m[1], b, blo, m[2])
                + matching_size(a, m[1] + m[3], ahi, b, m[2] + m[3], bhi)

\* SequenceMatcher(None, a, b).ratio() = 2*M/T, 1.0 when T = 0
ratio(a, b) ==
  IF Len(a) + Len(b) = 0 THEN [num |-> 1, den |-> 1]
  ELSE [num |-> 2 * matching_size(a, 1, Len(a) + 1, b, 1, Len(b) + 1),
        den |-> Len(a) + Len(b)]

\* length of a longest common subsequence
RECURSIVE lcs(_, _)
lcs(a, b) ==
  IF a = <<>> \/ b = <<>> THEN 0
  ELSE IF Head(a) = Head(b) THEN 1 + lcs(Tail(a), Tail(b))
  ELSE Max(lcs(Tail(a), b), lcs(a, Tail(b)))

\* rapidfuzz.fuzz.ratio = 100 * 2*LCS/(len(a)+len(b)), 100 when both are empty
fuzz_ratio(a, b) ==
  IF Len(a) + Len(b) = 0 THEN [num |-> 100, den |-> 1]
  ELSE [num |-> 200 * lcs(a, b), den |-> Len(a) + Len(b)]

\* comparisons of scores num/den (den > 0)
score_ge(x, y) == x.num * y.den >= y.num * x.den

score_gt(x, y) == x.num * y.den > y.num * x.den

score_eq(x, y) == x.num * y.den = y.num * x.den

score_of(n) == [num |-> n, den |-> 1]

score_max(x, y) == IF score_ge(x, y) THEN x ELSE y

\* x * 100
score_times100(x) == [num |-> 100 * x.num, den |-> x.den]

\* 0.7 * n + 0.3 * s
score_weighted(n, s) ==
  [num |-> 7 * n.num * s.den + 3 * s.num * n.den, den |-> 10 * n.den * s.den]

----------------------------------------------------------------------------
(* Inputs: catalog sources and queries *)

sKab == <<"K", "a", "b">>

sCab == <<"C", "a", "b">>

sCkKab == <<"C", "k", "-", "K", "a", "b">>

sAb == <<"A", "b">>

sBlank == <<" ", " ">>

NS == <<".", "N", "S">>

\* name -> ticker items a mapping source may hold (a dict key may be '')
MapItems ==
  { [name |-> sKab, ticker |-> upper(sKab) \o NS],
    [name |-> sCab, ticker |-> upper(sCab) \o NS],
    [name |-> sCkKab, ticker |-> <<"C", "K">> \o NS],
    [name |-> sAb, ticker |-> upper(sAb) \o NS],
    [name |-> <<>>, ticker |-> <<"B", "B">> \o NS] }

\* rows a CSV source may hold; an empty field is read as NaN, written <<>>
CsvRows ==
  { [SYMBOL |-> upper(sKab), NAME |-> sKab],
    [SYMBOL |-> <<>>, NAME |-> sCab],
    [SYMBOL |-> upper(sAb), NAME |-> <<>>],
    [SYMBOL |-> <<"B", "B">>, NAME |-> sBlank] }

SeqsUpTo(S, n) == UNION {[1..m -> S] : m \in 0..n}

\* a dict has one item per key, in insertion order
MapSources ==
  {m \in SeqsUpTo(MapItems, MaxCatalog) :
     \A i, j \in 1..Len(m) : i # j => m[i].name # m[j].name}

CsvSources == SeqsUpTo(CsvRows, MaxCatalog)

qLong == <<"a", "b", "c", "c", "c", "c", "c", "c", " ", "k", "a", "b">>

Queries ==
  { upper(sKab), sCkKab, qLong, <<"c", "c", " ", "k", "a", "b">>,
    <<"c", "k", "a", "b">>, <<"c", "a", "b">>, <<"a", "k", "b">> }

DefaultMaxResults == 5

\* the queries that are also sent with a max_results of -1, 0 and 1
CutQueries == {upper(sKab), <<"c", "k", "a", "b">>, <<"a", "k", "b">>}

\* the (query, max_results) pairs match_stock is called with
CallInputs ==
  {<<q, DefaultMaxResults>> : q \in Queries}
    \cup {<<q, k>> : q \in CutQueries, k \in {0 - 1, 0, 1}}

----------------------------------------------------------------------------
(* Construction *)

\* df.dropna(subset=['SYMBOL', 'NAME OF COMPANY'])
dropna(rows) == SelectSeq(rows, LAMBDA r : r.SYMBOL # <<>> /\ r.NAME # <<>>)

\* the DataFrame built from a name -> ticker dict
frame_of_map(m) ==
  [i \in 1..Len(m) |-> [SYMBOL |-> remove_ns(m[i].ticker), NAME |-> m[i].name]]

\* StockMatcher._prepare_data
prepare_data(frame) ==
  [i \in 1..Len(frame) |->
     LET symbol == strip(frame[i].SYMBOL)
         name == strip(frame[i].NAME)
     IN  [symbol |-> symbol, name |-> name, clean_name |-> clean_text(name),
          ticker |-> symbol \o NS]]

\* the prefixes s[:2] .. s[:4] that exist: range(2, min(len(s) + 1, 5))
prefixes(s) == [n \in 1..(Min(Len(s) + 1, 5) - 2) |-> Take(s, n + 1)]

prefix_keys(stock) == prefixes(stock.clean_name) \o prefixes(lower(stock.symbol))

word_keys(stock) == SelectSeq(split(stock.clean_name), LAMBDA w : Len(w) >= 2)

trigram_keys(stock) == get_trigrams(stock.clean_name)

phonetic_keys(stock) ==
  LET phonetic == metaphone(remove_spaces(stock.clean_name))
  IN  IF phonetic # <<>> THEN <<phonetic>> ELSE <<>>

\* the positions appended under key k while record i is indexed
appended(ks, k, i) == [j \in 1..Len(SelectSeq(ks, LAMBDA x : x = k)) |-> i]

\* one defaultdict(list) filled by the loop of _build_indices, given for
\* each record in turn the keys it is appended under
build_index(key_lists) ==
  LET keys == UNION {Range(key_lists[i]) : i \in 1..Len(key_lists)}
  IN  [k \in keys |->
         Flatten([i \in 1..Len(key_lists) |-> appended(key_lists[i], k, i)])]

----------------------------------------------------------------------------
(* Query-time functions.  A result {'stock': s, 'score': x, 'match_type':  *)
(* t} is [idx, score, match_type] with s = stock_data[idx].                *)

\* list(candidates) for a set of catalog positions: CPython keeps an int n
\* in slot n of the 8-slot table of a small set, so positions below 8 (all
\* positions here) come out in ascending order
RECURSIVE list_of_set(_)
list_of_set(S) ==
  IF S = {} THEN <<>>
  ELSE LET m == CHOOSE x \in S : \A y \in S : x <= y
       IN  <<m>> \o list_of_set(S \ {m})

\* a lookup that reads index[key] without testing membership first: on a
\* defaultdict the read inserts every missing key
after_unguarded_get(index, keys) ==
  [k \in DOMAIN index \cup keys |-> IF k \in DOMAIN index THEN index[k] ELSE <<>>]

\* the defaultdict after "if key in index: ... index[key]" for each key:
\* a membership test inserts nothing and the read happens for present keys
after_guarded_get(index, keys) == index

\* StockMatcher._exact_match
exact_match(q, qc) ==
  LET hit(i) == \/ stock_data[i].symbol = upper(q)
                \/ stock_data[i].clean_name = qc
                \/ contains(stock_data[i].clean_name, qc)
      idxs == SelectSeq([i \in 1..Len(stock_data) |-> i], hit)
  IN  [n \in 1..Len(idxs) |->
         [idx |-> idxs[n], score |-> score_of(100), match_type |-> "exact"]]

\* StockMatcher._prefix_match: the candidate set
prefix_match(qc) ==
  UNION {Range(prefix_index[k]) : k \in Range(prefixes(qc)) \cap DOMAIN prefix_index}

\* StockMatcher._word_match: the candidate set
word_match(qc) ==
  UNION {Range(word_index[w]) :
           w \in {x \in Range(split(qc)) : Len(x) >= 2} \cap DOMAIN word_index}

\* candidate_scores[idx] in _trigram_match
trigram_count(qc, idx) ==
  LET qt == Range(get_trigrams(qc)) \cap DOMAIN trigram_index
      hits(t) == Len(SelectSeq(trigram_index[t], LAMBDA x : x = idx))
      RECURSIVE sum(_)
      sum(T) == IF T = {} THEN 0
                ELSE LET t == CHOOSE x \in T : TRUE IN hits(t) + sum(T \ {t})
  IN  sum(qt)

\* the positions of s that are not in seen, each once, in the order of s
RECURSIVE unseen(_, _)
unseen(s, seen) ==
  IF s = <<>> THEN <<>>
  ELSE IF Head(s) \in Range(seen) THEN unseen(Tail(s), seen)
  ELSE <<Head(s)>> \o unseen(Tail(s), Append(seen, Head(s)))

\* the key orders of candidate_scores: the query trigrams come out of a set
\* of str in hash order, and each one inserts its not yet seen positions in
\* index-list order
RECURSIVE insertion_orders(_, _)
insertion_orders(qt, seen) ==
  LET useful == {t \in qt : unseen(trigram_index[t], seen) # <<>>}
  IN  IF useful = {} THEN {seen}
      ELSE UNION {insertion_orders(qt, seen \o unseen(trigram_index[t], seen)) :
                    t \in useful}

\* StockMatcher._trigram_match: the lists it can return
trigram_match(qc) ==
  LET query_trigrams == Range(get_trigrams(qc))
      n == Cardinality(query_trigrams)
      \* score >= max(1, n * 0.3)
      keep(idx) == 10 * trigram_count(qc, idx) >= Max(10, 3 * n)
  IN  {SelectSeq(o, keep) :
         o \in insertion_orders(query_trigrams \cap DOMAIN trigram_index, <<>>)}

\* StockMatcher._phonetic_match
phonetic_match(qc) ==
  LET query_phonetic == metaphone(remove_spaces(qc))
  IN  IF query_phonetic # <<>> /\ query_phonetic \in DOMAIN phonetic_index
      THEN phonetic_index[query_phonetic]
      ELSE <<>>

\* final_score in _rank_matches
final_score(qc, stock) ==
  LET name_similarity == ratio(qc, stock.clean_name)
      symbol_similarity == ratio(qc, lower(stock.symbol))
  IN  score_times100(score_max(score_weighted(name_similarity, symbol_similarity),
                               score_max(name_similarity, symbol_similarity)))

\* sorted(matches, key=score, reverse=True): stable, equal scores keep their order
RECURSIVE sort_by_score(_)
sort_by_score(ms) ==
  IF ms = <<>> THEN <<>>
  ELSE LET rest == sort_by_score(SubSeq(ms, 1, Len(ms) - 1))
           m == ms[Len(ms)]
       IN  SelectSeq(rest, LAMBDA x : score_ge(x.score, m.score)) \o <<m>>
           \o SelectSeq(rest, LAMBDA x : ~score_ge(x.score, m.score))

\* a ranker that tags its results with the name of the first ranked tier
rank_tag_prefix == "prefix"

\* the tag _rank_matches gives every result
rank_tag == "similarity"

\* the score floor of _rank_matches
rank_floor == 30

\* a ranker without the "if final_score >= 30" test
rank_matches_no_floor(candidate_indices, qc) ==
  sort_by_score([n \in 1..Len(candidate_indices) |->
                   [idx |-> candidate_indices[n],
                    score |-> final_score(qc, stock_data[candidate_indices[n]]),
                    match_type |-> rank_tag]])

\* StockMatcher._rank_matches
rank_matches(candidate_indices, qc) ==
  LET scored == [n \in 1..Len(candidate_indices) |->
                   [idx |-> candidate_indices[n],
                    score |-> final_score(qc, stock_data[candidate_indices[n]]),
                    match_type |-> rank_tag]]
  IN  sort_by_score(SelectSeq(scored,
                              LAMBDA m : score_ge(m.score, score_of(rank_floor))))

\* score_cutoff of the fuzzy fallback
fuzzy_cutoff == 60

\* StockMatcher._fuzzy_fallback: the lists it can return.  process.extract
\* keeps the choices scoring >= score_cutoff, best first, equal scores in
\* catalog order, and returns the first `limit`; what it returns for a
\* negative limit depends on the rapidfuzz build (any leading part here).
fuzzy_fallback(qc, k) ==
  LET scored == [i \in 1..Len(stock_data) |->
                   [idx |-> i, score |-> fuzz_ratio(qc, stock_data[i].clean_name),
                    match_type |-> "fuzzy"]]
      best == sort_by_score(SelectSeq(scored,
                 LAMBDA m : score_ge(m.score, score_of(fuzzy_cutoff))))
  IN  IF k >= 0 THEN {Take(best, k)}
      ELSE {Take(best, n) : n \in 0..Len(best)}

----------------------------------------------------------------------------
(* State machine.  pc[c] is where caller c stands in match_stock; calls[c] *)
(* lists, for the call in progress, each lookup function invoked with what *)
(* its tier produced (after the score floor, before truncation).           *)

TierOrder == <<"exact", "prefix", "word", "trigram", "phonetic", "fuzzy">>

\* StockMatcher.__init__ on either kind of source
Init ==
  /\ \E frame \in {dropna(rows) : rows \in CsvSources}
                    \cup {frame_of_map(m) : m \in MapSources} :
       /\ df = frame
       /\ stock_data = prepare_data(frame)
  /\ prefix_index =
       build_index([i \in 1..Len(stock_data) |-> prefix_keys(stock_data[i])])
  /\ word_index =
       build_index([i \in 1..Len(stock_data) |-> word_keys(stock_data[i])])
  /\ trigram_index =
       build_index([i \in 1..Len(stock_data) |-> trigram_keys(stock_data[i])])
  /\ phonetic_index =
       build_index([i \in 1..Len(stock_data) |-> phonetic_keys(stock_data[i])])
  /\ pc = [c \in Callers |-> "idle"]
  /\ query = [c \in Callers |-> <<>>]
  /\ max_results = [c \in Callers |-> DefaultMaxResults]
  /\ query_clean = [c \in Callers |-> <<>>]
  /\ cands = [c \in Callers |-> <<>>]
  /\ result = [c \in Callers |-> <<>>]
  /\ calls = [c \in Callers |-> <<>>]
  /\ text = <<>>
  /\ cleaned = <<>>

\* a cascade that never returns early
after_tier_no_return(matches, next) == next

\* where match_stock goes after a tier: "if matches: return ..." else on
after_tier(matches, next) == IF matches # <<>> THEN "return" ELSE next

\* match_stock is entered: query_clean = self._clean_text(query)
Call(c) ==
  /\ pc[c] = "idle"
  /\ \E in \in CallInputs :
       /\ query' = [query EXCEPT ![c] = in[1]]
       /\ max_results' = [max_results EXCEPT ![c] = in[2]]
       /\ query_clean' = [query_clean EXCEPT ![c] = clean_text(in[1])]
  /\ pc' = [pc EXCEPT ![c] = "exact"]
  /\ cands' = [cands EXCEPT ![c] = <<>>]
  /\ result' = [result EXCEPT ![c] = <<>>]
  /\ calls' = [calls EXCEPT ![c] = <<>>]
  /\ UNCHANGED <<catalogVars, cleanVars>>

\* one ranked tier: the lookup gave matches; rank, cut and return, or go on
Tier(c, fn, matches, next) ==
  LET ranked == IF matches # <<>> THEN rank_matches(matches, query_clean[c])
                ELSE <<>>
  IN  /\ cands' = [cands EXCEPT ![c] = matches]
      /\ calls' = [calls EXCEPT ![c] = Append(@, [fn |-> fn, out |-> ranked])]
      /\ result' = [result EXCEPT ![c] =
                      IF matches # <<>> THEN slice_to(ranked, max_results[c])
                      ELSE @]
      /\ pc' = [pc EXCEPT ![c] = after_tier(matches, next)]
      /\ UNCHANGED <<query, max_results, query_clean, df, stock_data, cleanVars>>

Exact(c) ==
  /\ pc[c] = "exact"
  /\ LET exact_matches == exact_match(query[c], query_clean[c])
     IN  /\ calls' = [calls EXCEPT ![c] =
                        Append(@, [fn |-> "exact", out |-> exact_matches])]
         /\ result' = [result EXCEPT ![c] =
                         IF exact_matches # <<>>
                         THEN slice_to(exact_matches, max_results[c]) ELSE @]
         /\ pc' = [pc EXCEPT ![c] = after_tier(exact_matches, "prefix")]
  /\ UNCHANGED <<catalogVars, query, max_results, query_clean, cands, cleanVars>>

Prefix(c) ==
  /\ pc[c] = "prefix"
  /\ prefix_index' =
       after_guarded_get(prefix_index, Range(prefixes(query_clean[c])))
  /\ Tier(c, "prefix", list_of_set(prefix_match(query_clean[c])), "word")
  /\ UNCHANGED <<word_index, trigram_index, phonetic_index>>

Word(c) ==
  /\ pc[c] = "word"
  /\ word_index' =
       after_guarded_get(word_index,
                         {w \in Range(split(query_clean[c])) : Len(w) >= 2})
  /\ Tier(c, "word", list_of_set(word_match(query_clean[c])), "trigram")
  /\ UNCHANGED <<prefix_index, trigram_index, phonetic_index>>

Trigram(c) ==
  /\ pc[c] = "trigram"
  /\ trigram_index' =
       after_guarded_get(trigram_index, Range(get_trigrams(query_clean[c])))
  /\ \E trigram_matches \in trigram_match(query_clean[c]) :
       Tier(c, "trigram", trigram_matches, "phonetic")
  /\ UNCHANGED <<prefix_index, word_index, phonetic_index>>

Phonetic(c) ==
  /\ pc[c] = "phonetic"
  /\ phonetic_index' =
       after_guarded_get(phonetic_index,
                         {metaphone(remove_spaces(query_clean[c]))} \ {<<>>})
  /\ Tier(c, "phonetic", phonetic_match(query_clean[c]), "fuzzy")
  /\ UNCHANGED <<prefix_index, word_index, trigram_index>>

Fuzzy(c) ==
  /\ pc[c] = "fuzzy"
  /\ \E matches \in fuzzy_fallback(query_clean[c], max_results[c]) :
       /\ calls' = [calls EXCEPT ![c] = Append(@, [fn |-> "fuzzy", out |-> matches])]
       /\ result' = [result EXCEPT ![c] = matches]
  /\ pc' = [pc EXCEPT ![c] = "return"]
  /\ UNCHANGED <<catalogVars, query, max_results, query_clean, cands, cleanVars>>

\* the caller has the list; the call's locals are gone
Return(c) ==
  /\ pc[c] = "return"
  /\ pc' = [pc EXCEPT ![c] = "idle"]
  /\ query' = [query EXCEPT ![c] = <<>>]
  /\ max_results' = [max_results EXCEPT ![c] = DefaultMaxResults]
  /\ query_clean' = [query_clean EXCEPT ![c] = <<>>]
  /\ cands' = [cands EXCEPT ![c] = <<>>]
  /\ result' = [result EXCEPT ![c] = <<>>]
  /\ calls' = [calls EXCEPT ![c] = <<>>]
  /\ UNCHANGED <<catalogVars, cleanVars>>

Next ==
  \E c \in Callers :
    \/ Call(c)
    \/ Exact(c)
    \/ Prefix(c)
    \/ Word(c)
    \/ Trigram(c)
    \/ Phonetic(c)
    \/ Fuzzy(c)
    \/ Return(c)

Spec == Init /\ [][Next]_vars

----------------------------------------------------------------------------
(* _clean_text on its own: text is the input, cleaned the successive       *)
(* results of applying _clean_text to it and then to its own output.       *)

CleanAlphabet == {"a", "A", " ", "TAB", "-", "E_ACUTE"}

InitClean ==
  /\ text \in SeqsUpTo(CleanAlphabet, MaxLen)
  /\ cleaned = <<>>
  /\ df = <<>>
  /\ stock_data = <<>>
  /\ prefix_index = <<>>
  /\ word_index = <<>>
  /\ trigram_index = <<>>
  /\ phonetic_index = <<>>
  /\ pc = [c \in Callers |-> "idle"]
  /\ query = [c \in Callers |-> <<>>]
  /\ max_results = [c \in Callers |-> DefaultMaxResults]
  /\ query_clean = [c \in Callers |-> <<>>]
  /\ cands = [c \in Callers |-> <<>>]
  /\ result = [c \in Callers |-> <<>>]
  /\ calls = [c \in Callers |-> <<>>]

CleanOnce ==
  /\ cleaned = <<>>
  /\ cleaned' = <<clean_text(text)>>
  /\ UNCHANGED <<text, catalogVars, callVars>>

CleanAgain ==
  /\ Len(cleaned) = 1
  /\ cleaned' = Append(cleaned, clean_text(cleaned[1]))
  /\ UNCHANGED <<text, catalogVars, callVars>>

NextClean == CleanOnce \/ CleanAgain

SpecClean == InitClean /\ [][NextClean]_vars

----------------------------------------------------------------------------
(* Properties *)

Returned(c) == pc[c] = "return"

\* the tier that produced the list caller c got
producer(c) == calls[c][Len(calls[c])].fn

\* what that tier produced before truncation
produced(c) == calls[c][Len(calls[c])].out

RankedTiers == {"prefix", "word", "trigram", "phonetic"}

\* the lists match_stock would return if a tier ended the cascade only when
\* some candidate of it survives ranking and the score floor
claimed_results(q, k) ==
  LET qc == clean_text(q)
      exact == exact_match(q, qc)
      by_prefix == rank_matches(list_of_set(prefix_match(qc)), qc)
      by_word == rank_matches(list_of_set(word_match(qc)), qc)
      by_trigram == {rank_matches(m, qc) : m \in trigram_match(qc)}
      by_phonetic == rank_matches(phonetic_match(qc), qc)
  IN  IF exact # <<>> THEN {slice_to(exact, k)}
      ELSE IF by_prefix # <<>> THEN {slice_to(by_prefix, k)}
      ELSE IF by_word # <<>> THEN {slice_to(by_word, k)}
      ELSE IF by_trigram # {<<>>} THEN {slice_to(r, k) : r \in by_trigram}
      ELSE IF by_phonetic # <<>> THEN {slice_to(by_phonetic, k)}
      ELSE fuzzy_fallback(qc, k)

\* C1: match_stock returns the (truncated) result of the first strategy, in
\* the order exact, prefix, word, trigram, phonetic, fuzzy, whose result is
\* non-empty after ranking and the score floor of 30; a tier whose
\* candidates are all dropped by the floor does not end the cascade.
C1_FirstNonEmptyRankedTier ==
  \A c \in Callers :
    Returned(c) => result[c] \in claimed_results(query[c], max_results[c])

\* C2: for a record r, a query equal to r's company name or to r's symbol
\* returns a non-empty list whose first element is r with score 100, also
\* when an earlier record's normalized name contains the query.
C2_ExactReflexive ==
  \A c \in Callers : \A i \in 1..Len(stock_data) :
    ( /\ Returned(c)
      /\ max_results[c] >= 1
      /\ query[c] \in {stock_data[i].name, stock_data[i].symbol}
      /\ \A j \in 1..Len(stock_data) : stock_data[j] = stock_data[i] => j = i )
    => /\ result[c] # <<>>
       /\ result[c][1].idx = i
       /\ score_eq(result[c][1].score, score_of(100))

EmptyNamed == {i \in 1..Len(stock_data) : stock_data[i].name = <<>>}

Indexed(index) == UNION {Range(index[k]) : k \in DOMAIN index}

\* C3: a record whose company name is empty (or empty after stripping) is
\* dropped at load: every record of stock_data has a non-empty symbol and
\* name, no index holds the position of such a record, and no match_stock
\* call returns it.
C3_EmptyNameDropped ==
  /\ \A i \in 1..Len(stock_data) :
       stock_data[i].symbol # <<>> /\ stock_data[i].name # <<>>
  /\ EmptyNamed \cap (Indexed(prefix_index) \cup Indexed(word_index)
                      \cup Indexed(trigram_index) \cup Indexed(phonetic_index)) = {}
  /\ \A c \in Callers : \A n \in 1..Len(result[c]) : result[c][n].idx \notin EmptyNamed

\* C4: in every returned list, a result of the prefix, word, trigram or
\* phonetic tier has score >= 30, a result of the fuzzy fallback has score
\* >= 60, and a result of the exact tier has score 100.
C4_ScoreFloors ==
  \A c \in Callers : \A n \in 1..Len(result[c]) :
    Returned(c) =>
      /\ producer(c) \in RankedTiers => score_ge(result[c][n].score, score_of(30))
      /\ producer(c) = "fuzzy" => score_ge(result[c][n].score, score_of(60))
      /\ producer(c) = "exact" => score_eq(result[c][n].score, score_of(100))

\* a caller got a non-empty list from a ranked tier while the other got a
\* non-empty list from the fuzzy fallback
C4_Witness ==
  \E c, d \in Callers :
    /\ Returned(c) /\ producer(c) \in RankedTiers /\ result[c] # <<>>
    /\ Returned(d) /\ producer(d) = "fuzzy" /\ result[d] # <<>>

\* C5: the list _rank_matches returns is sorted by score descending, and two
\* results of equal score appear in ascending catalog position, whatever
\* order the tier produced the candidates in.
C5_RankedOrder ==
  \A c \in Callers : \A n \in 1..Len(calls[c]) :
    calls[c][n].fn \in RankedTiers =>
      LET out == calls[c][n].out
      IN  \A i, j \in 1..Len(out) :
            i < j => \/ score_gt(out[i].score, out[j].score)
                     \/ /\ score_eq(out[i].score, out[j].score)
                        /\ out[i].idx < out[j].idx

\* C6: no sequence or interleaving of match_stock calls changes stock_data
\* or an index: each index has the key set and position lists it had right
\* after _build_indices, also after queries whose prefixes, words, trigrams
\* or phonetic code are not keys.
C6_CatalogFrozen ==
  [][UNCHANGED <<stock_data, prefix_index, word_index, trigram_index,
                 phonetic_index>>]_vars

\* a caller went through all four index lookups, each with a key the index
\* lacks, while the other caller is inside a call
C6_Witness ==
  \E c, d \in Callers :
    /\ c # d /\ stock_data # <<>>
    /\ Returned(c) /\ producer(c) = "fuzzy"
    /\ Range(prefixes(query_clean[c])) \ DOMAIN prefix_index # {}
    /\ Range(split(query_clean[c])) \ DOMAIN word_index # {}
    /\ Range(get_trigrams(query_clean[c])) \ DOMAIN trigram_index # {}
    /\ metaphone(remove_spaces(query_clean[c])) \notin DOMAIN phonetic_index
    /\ pc[d] \in {"prefix", "word", "trigram", "phonetic", "fuzzy"}

\* C7: for every max_results, the returned list has length <= max_results,
\* whichever tier produced it.
C7_SizeBound ==
  \A c \in Callers : Returned(c) => Len(result[c]) <= max_results[c]

\* C7 as amended: for every max_results >= 0, the returned list has length
\* <= max_results, whichever tier produced it.
C7_SizeBoundNonNegative ==
  \A c \in Callers :
    Returned(c) /\ max_results[c] >= 0 => Len(result[c]) <= max_results[c]

\* a tier produced more results than max_results and the list was cut
C7_Witness ==
  \E c \in Callers :
    /\ Returned(c) /\ max_results[c] >= 0
    /\ Len(produced(c)) > max_results[c]
    /\ Len(result[c]) = max_results[c]

\* C8: every returned result carries a tag that is one of exact, prefix,
\* word, trigram, phonetic, fuzzy, and the tag names the tier that produced
\* the result.
C8_TagNamesTier ==
  \A c \in Callers : \A n \in 1..Len(result[c]) :
    Returned(c) =>
      /\ result[c][n].match_type \in Range(TierOrder)
      /\ result[c][n].match_type = producer(c)

\* C8 as amended: every returned result carries a tag that is one of exact,
\* similarity, fuzzy: exact from the exact tier, fuzzy from the fuzzy
\* fallback, and similarity from each of the prefix, word, trigram and
\* phonetic tiers.
C8_TagNamesKind ==
  \A c \in Callers : \A n \in 1..Len(result[c]) :
    Returned(c) =>
      /\ result[c][n].match_type \in {"exact", "similarity", "fuzzy"}
      /\ producer(c) = "exact" <=> result[c][n].match_type = "exact"
      /\ producer(c) = "fuzzy" <=> result[c][n].match_type = "fuzzy"
      /\ producer(c) \in RankedTiers <=> result[c][n].match_type = "similarity"

\* a caller got a non-empty list from the trigram tier, the other from the
\* exact tier
C8_Witness ==
  \E c, d \in Callers :
    /\ Returned(c) /\ producer(c) = "trigram" /\ result[c] # <<>>
    /\ Returned(d) /\ producer(d) = "exact" /\ result[d] # <<>>

\* C9: within one call the lookups are invoked in the order exact, prefix,
\* word, trigram, phonetic, fuzzy; once a tier has produced a candidate that
\* survives the floor no later lookup and no fuzzy fallback is invoked; the
\* fuzzy fallback is invoked only when tiers 1-5 all produced nothing.
C9_ShortCircuit ==
  \A c \in Callers :
    /\ Len(calls[c]) <= Len(TierOrder)
    /\ \A n \in 1..Len(calls[c]) :
         /\ calls[c][n].fn = TierOrder[n]
         /\ n < Len(calls[c]) => calls[c][n].out = <<>>

\* a caller's word tier produced a survivor, after the exact and prefix
\* tiers produced nothing, and the call ended there
C9_Witness ==
  \E c \in Callers :
    /\ Returned(c) /\ producer(c) = "word" /\ produced(c) # <<>>
    /\ Len(calls[c]) = 3

\* C10: _clean_text is idempotent: _clean_text(_clean_text(s)) = _clean_text(s)
\* for every string s.
C10_CleanIdempotent == Len(cleaned) = 2 => cleaned[2] = cleaned[1]

\* a string with an upper-case letter, punctuation and a whitespace run was
\* cleaned twice
C10_Witness ==
  /\ Len(cleaned) = 2
  /\ cleaned[1] # text
  /\ "-" \in Range(text) /\ "TAB" \in Range(text) /\ "A" \in Range(text)

====
